---------------------------- MODULE Spec2Model ----------------------------
(***************************************************************************)
(* The train() routines of the two image re-ID engines                     *)
(*   ImageClusterDependencyTripletDropBatchDropBotFeaturesEngine  (cluster)*)
(*   ImageTripletNpairsSoftmaxFGnetEngine                         (fgnet)  *)
(* as a state machine.  One action per statement group of train(); pc is   *)
(* the position inside the routine.  Tensors are abstracted to the scalars *)
(* the loop reads from them: the loss value of every term (.item()), the   *)
(* label count pids.size(0) and the accuracy; weights and loss values are  *)
(* naturals instead of floats; time samples are the unit tick.             *)
(***************************************************************************)
EXTENDS Integers, Sequences, FiniteSets, TLC

\* ------------------------------------------------------------------ bounds
MaxEpoch == 2
MaxBatches == 2
MaxBatchSize == 4
MaxParts == 2

\* min(weights.size(0), 3): samples per part whose histogram is written
HistBatchCap == 3

None == "None"

Engines == {"cluster", "fgnet"}

\* --------------------------------------------------------------- loss terms
\* The loss terms of each engine, in the order the meters are created.
ClusterTerms == <<"t", "x", "c", "db_t", "db_x", "db_c", "b_db_t", "b_db_x", "b_db_c", "dep">>

FGnetTerms == <<"t", "x", "n", "x_parts">>

TermSeq(eng) == IF eng = "cluster" THEN ClusterTerms ELSE FGnetTerms

Range(s) == {s[i] : i \in 1..Len(s)}

Terms(eng) == Range(TermSeq(eng))

Idx(eng, t) == CHOOSE i \in 1..Len(TermSeq(eng)) : TermSeq(eng)[i] = t

VARIABLES
    \* the engine object (self) and the arguments of the run
    engine,          \* which of the two engine classes is running
    weight,          \* self.weight_<term>, a function over the engine's terms
    top_drop_epoch,  \* self.top_drop_epoch (cluster engine only)
    scheduler,       \* self.scheduler: None or a scheduler
    writer,          \* self.writer: None or a summary writer
    num_parts,       \* len(part_weights) of the fgnet model's output
    max_epoch, trainloader, fixbase_epoch, open_layers, print_freq,
    \* the position in train() and its locals
    pc, epoch, batch_idx, num_batches, pids_size, drop_top, outputs, loss_val, loss,
    losses, accs, batch_time, data_time,
    \* collaborators' state
    opened,          \* which layers of self.model are trainable
    opt_steps,       \* number of optimizer.step() calls of the run
    sched_steps,     \* number of scheduler.step() calls of the run
    \* call records
    events,          \* the calls the current train() has made, in order
    batch_losses,    \* per batch of the current train(): label count and loss values
    writer_steps,    \* per logged batch of the run: (epoch, batch_idx, n_iter)
    run_events,      \* the events of the completed train() calls of the run
    ref_run          \* the run_events of the cluster engine's finished run

config == <<engine, weight, top_drop_epoch, scheduler, writer, num_parts,
            max_epoch, trainloader, fixbase_epoch, open_layers, print_freq>>

meters == <<losses, accs, batch_time, data_time>>

locals == <<pids_size, drop_top, outputs, loss_val, loss>>

vars == <<config, pc, epoch, batch_idx, num_batches, locals, meters, opened,
          opt_steps, sched_steps, events, batch_losses, writer_steps,
          run_events, ref_run>>

\* ------------------------------------------------------------ AverageMeter
\* torchreid.utils.AverageMeter: val, sum, count (avg = sum / count); updates
\* counts the update() calls.
EmptyMeter == [val |-> 0, sum |-> 0, count |-> 0, updates |-> 0]

MeterUpdate(m, v, n) == [val |-> v, sum |-> m.sum + v * n, count |-> m.count + n, updates |-> m.updates + 1]

\* avg as the fraction <<numerator, denominator>>
MeterAvg(m) == <<m.sum, m.count>>

\* ------------------------------------------------------------------ events
Ev(name, tag, num) == [ev |-> name, epoch |-> epoch, batch |-> batch_idx, tag |-> tag, num |-> num]

EvAt(name, e, b, tag, num) == [ev |-> name, epoch |-> e, batch |-> b, tag |-> tag, num |-> num]


\* ------------------------------------------------------------------ inputs
\* self.weight_* : the defaults, and vectors with pairwise different and with
\* zero weights.
DefaultWeights(eng) == [t \in Terms(eng) |-> 1]

WeightVectors(eng) == {DefaultWeights(eng), [t \in Terms(eng) |-> Idx(eng, t)], [t \in Terms(eng) |-> IF Idx(eng, t) % 2 = 1 THEN 0 ELSE 2]}

\* What the model and the criteria return for a batch: the value of every loss
\* term and the accuracy of the batch.
DefaultOutputs(eng) == {[loss |-> [t \in Terms(eng) |-> Idx(eng, t)], acc |-> 100]}

AllOutputs(eng) == DefaultOutputs(eng) \cup {[loss |-> [t \in Terms(eng) |-> 2 * (Len(TermSeq(eng)) + 1 - Idx(eng, t))], acc |-> 50]}

NoOutputs(eng) == [loss |-> [t \in Terms(eng) |-> 0], acc |-> 0]

\* A trainloader is the sequence of its batches' label counts; len(trainloader)
\* is its length.
DefaultLoader(k) == [i \in 1..k |-> IF i % 2 = 1 THEN MaxBatchSize ELSE 1]

Loaders(k) == [1..k -> {1, MaxBatchSize}]

TopDropEpochs == (-1)..MaxEpoch

\* ---------------------------------------------------- per-engine expressions
\* variant: < in place of <=
Cluster_fixbase_Strict(e) == (e + 1) < fixbase_epoch /\ open_layers # None

\* line 127 / 109: if (epoch+1)<=fixbase_epoch and open_layers is not None
Cluster_fixbase(e) == (e + 1) <= fixbase_epoch /\ open_layers # None

FGnet_fixbase(e) == (e + 1) <= fixbase_epoch /\ open_layers # None

Fixbase(eng, e) == IF eng = "cluster" THEN Cluster_fixbase(e) ELSE FGnet_fixbase(e)

\* lines 126-131 / 108-113: model.train() and the layer opening
OpenLayersCalls(eng, e) ==
    <<EvAt("model.train", e, -1, "", 0)>> \o
    (IF Fixbase(eng, e)
     THEN <<EvAt("print", e, -1, "only_train", 0), EvAt("open_specified_layers", e, -1, open_layers, 0)>>
     ELSE <<EvAt("open_all_layers", e, -1, "", 0)>>)

\* variant: > in place of >=
Cluster_drop_top_Strict == (top_drop_epoch # -1) /\ ((epoch + 1) > top_drop_epoch)

\* line 144: drop_top = (self.top_drop_epoch != -1) and ((epoch+1) >= self.top_drop_epoch)
Cluster_drop_top == (top_drop_epoch # -1) /\ ((epoch + 1) >= top_drop_epoch)

\* line 145 / 126: the arguments of the forward call besides imgs
Cluster_forward_args == IF Cluster_drop_top THEN "drop_top=True" ELSE "drop_top=False"

FGnet_forward_args == ""

ForwardArgs(eng) == IF eng = "cluster" THEN Cluster_forward_args ELSE FGnet_forward_args

\* variant: the db_t and db_x weights paired with each other's loss
Cluster_loss_Swapped(w, l) ==
    w["t"] * l["t"] + w["x"] * l["x"] + w["db_t"] * l["db_x"] + w["db_x"] * l["db_t"]
    + w["b_db_t"] * l["b_db_t"] + w["b_db_x"] * l["b_db_x"] + w["c"] * l["c"]
    + w["db_c"] * l["db_c"] + w["b_db_c"] * l["b_db_c"] + w["dep"] * l["dep"]

\* line 156
Cluster_loss(w, l) ==
    w["t"] * l["t"] + w["x"] * l["x"] + w["db_t"] * l["db_t"] + w["db_x"] * l["db_x"]
    + w["b_db_t"] * l["b_db_t"] + w["b_db_x"] * l["b_db_x"] + w["c"] * l["c"]
    + w["db_c"] * l["db_c"] + w["b_db_c"] * l["b_db_c"] + w["dep"] * l["dep"]

\* line 131
FGnet_loss(w, l) == w["t"] * l["t"] + w["x"] * l["x"] + w["n"] * l["n"] + w["x_parts"] * l["x_parts"]

TotalLoss(eng, w, l) == IF eng = "cluster" THEN Cluster_loss(w, l) ELSE FGnet_loss(w, l)

\* variants: the 0-based index tested
Cluster_print_due_ZeroBased == batch_idx % print_freq = 0

FGnet_print_due_ZeroBased == batch_idx % print_freq = 0

\* line 174 / 145: if (batch_idx+1) % print_freq == 0
Cluster_print_due == (batch_idx + 1) % print_freq = 0

FGnet_print_due == (batch_idx + 1) % print_freq = 0

PrintDue(eng) == IF eng = "cluster" THEN Cluster_print_due ELSE FGnet_print_due

\* variant: the epoch not scaled by num_batches
Cluster_n_iter_Unscaled == epoch + batch_idx

\* line 214 / 173: n_iter = epoch * num_batches + batch_idx
Cluster_n_iter == epoch * num_batches + batch_idx

FGnet_n_iter == epoch * num_batches + batch_idx

NIter(eng) == IF eng = "cluster" THEN Cluster_n_iter ELSE FGnet_n_iter

\* lines 215-228: the add_scalar tags in call order
ClusterScalarTags ==
    <<"Train/Time", "Train/Data", "Train/Loss_t", "Train/Loss_x", "Train/Loss_c",
      "Train/Loss_db_t", "Train/Loss_db_x", "Train/Loss_db_c", "Train/Loss_b_db_t",
      "Train/Loss_b_db_x", "Train/Loss_b_db_c", "Train/Loss_dep", "Train/Acc glob", "Train/Lr">>

\* lines 174-181
FGnetScalarTags ==
    <<"Train/Time", "Train/Data", "Train/Loss_t", "Train/Loss_x", "Train/Loss_n",
      "Train/Loss_x_parts", "Train/Acc glob", "Train/Lr">>

Min(a, b) == IF a <= b THEN a ELSE b

Cluster_writer_calls == [i \in 1..Len(ClusterScalarTags) |-> Ev("add_scalar", ClusterScalarTags[i], Cluster_n_iter)]

\* lines 184-186: for every part i, for j in range(min(weights.size(0), 3))
FGnet_histogram_calls ==
    LET m == Min(pids_size, HistBatchCap)
    IN  [k \in 1..(num_parts * m) |->
            Ev("add_histogram",
               "Train/Part" \o ToString((k - 1) \div m) \o "/Batch" \o ToString((k - 1) % m),
               FGnet_n_iter)]

FGnet_writer_calls ==
    [i \in 1..Len(FGnetScalarTags) |-> Ev("add_scalar", FGnetScalarTags[i], FGnet_n_iter)]
    \o FGnet_histogram_calls

WriterCalls(eng) == IF eng = "cluster" THEN Cluster_writer_calls ELSE FGnet_writer_calls

\* -------------------------------------------------------------------- Init
\* The state after the engine's construction, before the first train() call.
InitRun(eng) ==
    /\ pc = "idle"
    /\ epoch = 0
    /\ batch_idx = 0
    /\ num_batches = 0
    /\ pids_size = 0
    /\ drop_top = FALSE
    /\ outputs = NoOutputs(eng)
    /\ loss_val = [t \in Terms(eng) |-> 0]
    /\ loss = 0
    /\ losses = [t \in Terms(eng) |-> EmptyMeter]
    /\ accs = EmptyMeter
    /\ batch_time = EmptyMeter
    /\ data_time = EmptyMeter
    /\ opened = "unset"
    /\ opt_steps = 0
    /\ sched_steps = 0
    /\ events = <<>>
    /\ batch_losses = <<>>
    /\ writer_steps = <<>>
    /\ run_events = <<>>
    /\ ref_run = <<>>

\* Every control input varies; weights and model outputs are the defaults.
Init ==
    /\ engine \in Engines
    /\ weight = DefaultWeights(engine)
    /\ top_drop_epoch \in (IF engine = "cluster" THEN TopDropEpochs ELSE {-1})
    /\ num_parts \in (IF engine = "fgnet" THEN 1..MaxParts ELSE {0})
    /\ scheduler \in {None, "scheduler"}
    /\ writer \in {None, "writer"}
    /\ max_epoch \in 1..MaxEpoch
    /\ trainloader \in {DefaultLoader(k) : k \in 0..MaxBatches}
    /\ fixbase_epoch \in 0..MaxEpoch
    /\ open_layers \in {None, "classifier"}
    /\ print_freq \in 1..(MaxBatches + 1)
    /\ InitRun(engine)

\* ----------------------------------------------------------------- actions
\* variant: the meters made once per engine, not once per train()
TrainEntry_KeepsMeters(e, record) ==
    /\ epoch' = e
    /\ events' = OpenLayersCalls(engine, e)
    /\ opened' = IF Fixbase(engine, e) THEN open_layers ELSE "all"
    /\ num_batches' = Len(trainloader)
    /\ batch_idx' = 0
    /\ batch_losses' = <<>>
    /\ run_events' = IF record /\ pc = "returned" THEN Append(run_events, events) ELSE run_events
    /\ pc' = "loop"
    /\ UNCHANGED <<config, locals, meters, opt_steps, sched_steps, writer_steps, ref_run>>

\* lines 112-134 / 100-116: the entry of train(epoch = e, ...): fresh meters,
\* model.train(), the layer opening, num_batches = len(trainloader).
TrainEntry(e, record) ==
    /\ epoch' = e
    /\ losses' = [t \in Terms(engine) |-> EmptyMeter]
    /\ accs' = EmptyMeter
    /\ batch_time' = EmptyMeter
    /\ data_time' = EmptyMeter
    /\ events' = OpenLayersCalls(engine, e)
    /\ opened' = IF Fixbase(engine, e) THEN open_layers ELSE "all"
    /\ num_batches' = Len(trainloader)
    /\ batch_idx' = 0
    /\ batch_losses' = <<>>
    /\ run_events' = IF record /\ pc = "returned" THEN Append(run_events, events) ELSE run_events
    /\ pc' = "loop"
    /\ UNCHANGED <<config, locals, opt_steps, sched_steps, writer_steps, ref_run>>

\* The run calls train() for the epochs 0, 1, ..., max_epoch - 1 in order.
NextEpoch == IF pc = "idle" THEN 0 ELSE epoch + 1

CallTrain ==
    /\ pc \in {"idle", "returned"}
    /\ NextEpoch < max_epoch
    /\ TrainEntry(NextEpoch, FALSE)

\* line 135-141 / 117-123: the loop takes the next batch
LoopNext ==
    /\ pc = "loop"
    /\ batch_idx < Len(trainloader)
    /\ data_time' = MeterUpdate(data_time, 1, 1)
    /\ pids_size' = trainloader[batch_idx + 1]
    /\ events' = Append(events, Ev("data_time.update", "", 0))
    /\ pc' = "zero_grad"
    /\ UNCHANGED <<config, epoch, batch_idx, num_batches, drop_top, outputs, loss_val, loss,
                   losses, accs, batch_time, opened, opt_steps, sched_steps, batch_losses,
                   writer_steps, run_events, ref_run>>

\* the loader is exhausted
LoopExit ==
    /\ pc = "loop"
    /\ batch_idx >= Len(trainloader)
    /\ pc' = "sched"
    /\ UNCHANGED <<config, epoch, batch_idx, num_batches, locals, meters, opened, opt_steps,
                   sched_steps, events, batch_losses, writer_steps, run_events, ref_run>>

\* line 143 / 125
ZeroGrad ==
    /\ pc = "zero_grad"
    /\ events' = Append(events, Ev("zero_grad", "", 0))
    /\ pc' = "forward"
    /\ UNCHANGED <<config, epoch, batch_idx, num_batches, locals, meters, opened, opt_steps,
                   sched_steps, batch_losses, writer_steps, run_events, ref_run>>

\* lines 144-145 / 126
Forward(Outs) ==
    /\ pc = "forward"
    /\ \E out \in Outs : outputs' = out
    /\ drop_top' = IF engine = "cluster" THEN Cluster_drop_top ELSE drop_top
    /\ events' = Append(events, Ev("forward", ForwardArgs(engine), 0))
    /\ pc' = "losses"
    /\ UNCHANGED <<config, epoch, batch_idx, num_batches, pids_size, loss_val, loss, meters,
                   opened, opt_steps, sched_steps, batch_losses, writer_steps, run_events, ref_run>>

\* the forward pass raises
ForwardFail ==
    /\ pc = "forward"
    /\ drop_top' = IF engine = "cluster" THEN Cluster_drop_top ELSE drop_top
    /\ pc' = "raised"
    /\ UNCHANGED <<config, epoch, batch_idx, num_batches, pids_size, outputs, loss_val, loss,
                   meters, opened, opt_steps, sched_steps, events, batch_losses, writer_steps,
                   run_events, ref_run>>

\* lines 146-156 / 127-131
ComputeLosses ==
    /\ pc = "losses"
    /\ loss_val' = outputs.loss
    /\ loss' = TotalLoss(engine, weight, outputs.loss)
    /\ batch_losses' = Append(batch_losses, [n |-> pids_size, loss |-> outputs.loss])
    /\ events' = Append(events, Ev("compute_losses", "", 0))
    /\ pc' = "backward"
    /\ UNCHANGED <<config, epoch, batch_idx, num_batches, pids_size, drop_top, outputs, meters,
                   opened, opt_steps, sched_steps, writer_steps, run_events, ref_run>>

\* a loss computation raises
LossFail ==
    /\ pc = "losses"
    /\ pc' = "raised"
    /\ UNCHANGED <<config, epoch, batch_idx, num_batches, locals, meters, opened, opt_steps,
                   sched_steps, events, batch_losses, writer_steps, run_events, ref_run>>

\* variant: optimizer.step() left out after backward
Backward_SkipsStep ==
    /\ pc = "backward"
    /\ events' = Append(events, Ev("backward", "", loss))
    /\ pc' = "meters"
    /\ UNCHANGED <<config, epoch, batch_idx, num_batches, locals, meters, opened, opt_steps,
                   sched_steps, batch_losses, writer_steps, run_events, ref_run>>

\* line 157 / 134
Backward ==
    /\ pc = "backward"
    /\ events' = Append(events, Ev("backward", "", loss))
    /\ pc' = "step"
    /\ UNCHANGED <<config, epoch, batch_idx, num_batches, locals, meters, opened, opt_steps,
                   sched_steps, batch_losses, writer_steps, run_events, ref_run>>

\* variant: optimizer.step() placed before loss.backward()
BackwardFail_AfterStep ==
    /\ pc = "backward"
    /\ opt_steps' = opt_steps + 1
    /\ events' = Append(events, Ev("optimizer.step", "", 0))
    /\ pc' = "raised"
    /\ UNCHANGED <<config, epoch, batch_idx, num_batches, locals, meters, opened,
                   sched_steps, batch_losses, writer_steps, run_events, ref_run>>

\* loss.backward() raises
BackwardFail ==
    /\ pc = "backward"
    /\ pc' = "raised"
    /\ UNCHANGED <<config, epoch, batch_idx, num_batches, locals, meters, opened, opt_steps,
                   sched_steps, events, batch_losses, writer_steps, run_events, ref_run>>

\* line 158 / 135
OptimizerStep ==
    /\ pc = "step"
    /\ opt_steps' = opt_steps + 1
    /\ events' = Append(events, Ev("optimizer.step", "", 0))
    /\ pc' = "meters"
    /\ UNCHANGED <<config, epoch, batch_idx, num_batches, locals, meters, opened, sched_steps,
                   batch_losses, writer_steps, run_events, ref_run>>

\* lines 160-172 / 137-143
UpdateMeters ==
    /\ pc = "meters"
    /\ batch_time' = MeterUpdate(batch_time, 1, 1)
    /\ losses' = [t \in Terms(engine) |-> MeterUpdate(losses[t], loss_val[t], pids_size)]
    /\ accs' = MeterUpdate(accs, outputs.acc, 1)
    /\ events' = Append(events, Ev("meters.update", "", 0))
    /\ pc' = "print"
    /\ UNCHANGED <<config, epoch, batch_idx, num_batches, locals, data_time, opened, opt_steps,
                   sched_steps, batch_losses, writer_steps, run_events, ref_run>>

\* variant: the current batch counted as still to do
Cluster_eta_batches_OffByOne == num_batches - batch_idx + (max_epoch - (epoch + 1)) * num_batches

\* line 176 / 147: the batch count that batch_time.avg is multiplied with,
\* num_batches-(batch_idx+1) + (max_epoch-(epoch+1))*num_batches
Cluster_eta_batches == num_batches - (batch_idx + 1) + (max_epoch - (epoch + 1)) * num_batches

FGnet_eta_batches == num_batches - (batch_idx + 1) + (max_epoch - (epoch + 1)) * num_batches

EtaBatches(eng) == IF eng = "cluster" THEN Cluster_eta_batches ELSE FGnet_eta_batches

\* lines 174-211 / 145-170
PrintStep ==
    /\ pc = "print"
    /\ events' = IF PrintDue(engine) THEN Append(events, Ev("print", "progress", EtaBatches(engine))) ELSE events
    /\ pc' = "writer"
    /\ UNCHANGED <<config, epoch, batch_idx, num_batches, locals, meters, opened, opt_steps,
                   sched_steps, batch_losses, writer_steps, run_events, ref_run>>

\* lines 213-228 / 172-186
WriterStep ==
    /\ pc = "writer"
    /\ events' = IF writer # None THEN events \o WriterCalls(engine) ELSE events
    /\ writer_steps' = IF writer # None
                       THEN Append(writer_steps, [epoch |-> epoch, batch |-> batch_idx, n_iter |-> NIter(engine)])
                       ELSE writer_steps
    /\ pc' = "endbatch"
    /\ UNCHANGED <<config, epoch, batch_idx, num_batches, locals, meters, opened, opt_steps,
                   sched_steps, batch_losses, run_events, ref_run>>

\* variant: scheduler.step() indented into the loop body
EndBatch_StepsScheduler ==
    /\ pc = "endbatch"
    /\ batch_idx' = batch_idx + 1
    /\ sched_steps' = IF scheduler # None THEN sched_steps + 1 ELSE sched_steps
    /\ events' = IF scheduler # None THEN Append(events, Ev("scheduler.step", "", 0)) ELSE events
    /\ pc' = "loop"
    /\ UNCHANGED <<config, epoch, num_batches, locals, meters, opened, opt_steps,
                   batch_losses, writer_steps, run_events, ref_run>>

\* line 230 / 188, and back to the head of the loop
EndBatch ==
    /\ pc = "endbatch"
    /\ batch_idx' = batch_idx + 1
    /\ pc' = "loop"
    /\ UNCHANGED <<config, epoch, num_batches, locals, meters, opened, opt_steps, sched_steps,
                   events, batch_losses, writer_steps, run_events, ref_run>>

\* lines 232-233 / 190-191, and the return of train()
SchedulerStep ==
    /\ pc = "sched"
    /\ sched_steps' = IF scheduler # None THEN sched_steps + 1 ELSE sched_steps
    /\ events' = IF scheduler # None THEN Append(events, EvAt("scheduler.step", epoch, -1, "", 0)) ELSE events
    /\ pc' = "returned"
    /\ UNCHANGED <<config, epoch, batch_idx, num_batches, locals, meters, opened, opt_steps,
                   batch_losses, writer_steps, run_events, ref_run>>

Next ==
    \/ CallTrain
    \/ LoopNext
    \/ LoopExit
    \/ ZeroGrad
    \/ Forward(DefaultOutputs(engine))
    \/ ForwardFail
    \/ ComputeLosses
    \/ LossFail
    \/ Backward
    \/ BackwardFail
    \/ OptimizerStep
    \/ UpdateMeters
    \/ PrintStep
    \/ WriterStep
    \/ EndBatch
    \/ SchedulerStep

Spec == Init /\ [][Next]_vars

\* ---------------------------------------------- weights and outputs varied
\* The control inputs are fixed; the weights, the loader's batch sizes and the
\* model's outputs vary.
InitLoss ==
    /\ engine \in Engines
    /\ weight \in WeightVectors(engine)
    /\ top_drop_epoch = -1
    /\ num_parts = (IF engine = "fgnet" THEN 1 ELSE 0)
    /\ scheduler = "scheduler"
    /\ writer = None
    /\ max_epoch \in 1..MaxEpoch
    /\ trainloader \in UNION {Loaders(k) : k \in 0..MaxBatches}
    /\ fixbase_epoch = 0
    /\ open_layers = None
    /\ print_freq = 1
    /\ InitRun(engine)

NextLoss ==
    \/ CallTrain
    \/ LoopNext
    \/ LoopExit
    \/ ZeroGrad
    \/ Forward(AllOutputs(engine))
    \/ ComputeLosses
    \/ Backward
    \/ OptimizerStep
    \/ UpdateMeters
    \/ PrintStep
    \/ WriterStep
    \/ EndBatch
    \/ SchedulerStep

SpecLoss == InitLoss /\ [][NextLoss]_vars

\* ------------------------------------------------ the two engines, same run
\* The cluster engine runs all epochs, then the fgnet engine is constructed
\* with the same scheduler, writer and train() arguments and runs them too.
\* Argument combinations that differ in effect: open_layers = None makes
\* fixbase_epoch irrelevant, top_drop_epoch = 0 acts like 1, and num_parts is
\* read only when a writer is set.
PairLayerArgs == {<<0, None>>} \cup {<<f, "classifier">> : f \in 0..MaxEpoch}

PairWriterArgs == {<<None, 1>>} \cup {<<"writer", p>> : p \in 1..MaxParts}

InitPair ==
    /\ engine = "cluster"
    /\ weight = DefaultWeights(engine)
    /\ top_drop_epoch \in {-1} \cup 1..MaxEpoch
    /\ \E wa \in PairWriterArgs : writer = wa[1] /\ num_parts = wa[2]
    /\ scheduler \in {None, "scheduler"}
    /\ max_epoch \in 1..MaxEpoch
    /\ trainloader \in {DefaultLoader(k) : k \in 0..MaxBatches}
    /\ \E la \in PairLayerArgs : fixbase_epoch = la[1] /\ open_layers = la[2]
    /\ print_freq \in 1..(MaxBatches + 1)
    /\ InitRun(engine)

CallTrainPair ==
    /\ pc \in {"idle", "returned"}
    /\ NextEpoch < max_epoch
    /\ TrainEntry(NextEpoch, TRUE)

\* lines 71-97 of the fgnet engine: its construction, after the cluster
\* engine's run has ended
SwitchEngine ==
    /\ pc = "returned"
    /\ epoch + 1 >= max_epoch
    /\ engine = "cluster"
    /\ ref_run' = Append(run_events, events)
    /\ engine' = "fgnet"
    /\ weight' = DefaultWeights("fgnet")
    /\ pc' = "idle"
    /\ epoch' = 0
    /\ batch_idx' = 0
    /\ num_batches' = 0
    /\ pids_size' = 0
    /\ drop_top' = FALSE
    /\ outputs' = NoOutputs("fgnet")
    /\ loss_val' = [t \in Terms("fgnet") |-> 0]
    /\ loss' = 0
    /\ losses' = [t \in Terms("fgnet") |-> EmptyMeter]
    /\ accs' = EmptyMeter
    /\ batch_time' = EmptyMeter
    /\ data_time' = EmptyMeter
    /\ opened' = "unset"
    /\ opt_steps' = 0
    /\ sched_steps' = 0
    /\ events' = <<>>
    /\ batch_losses' = <<>>
    /\ writer_steps' = <<>>
    /\ run_events' = <<>>
    /\ UNCHANGED <<top_drop_epoch, scheduler, writer, num_parts, max_epoch, trainloader,
                   fixbase_epoch, open_layers, print_freq>>

NextPair ==
    \/ CallTrainPair
    \/ SwitchEngine
    \/ LoopNext
    \/ LoopExit
    \/ ZeroGrad
    \/ Forward(DefaultOutputs(engine))
    \/ ComputeLosses
    \/ Backward
    \/ OptimizerStep
    \/ UpdateMeters
    \/ PrintStep
    \/ WriterStep
    \/ EndBatch
    \/ SchedulerStep

SpecPair == InitPair /\ [][NextPair]_vars

\* ------------------------------------------------------------------ claims
IsPrefix(s, t) == Len(s) <= Len(t) /\ \A i \in 1..Len(s) : s[i] = t[i]

\* the positions of train() inside the body of the loop
BatchPcs == {"zero_grad", "forward", "losses", "backward", "step", "meters", "print", "writer", "endbatch"}

CoreOrder == <<"zero_grad", "forward", "compute_losses", "backward", "optimizer.step">>

IsCore(e) == e.ev \in Range(CoreOrder)

CoreOf(evs) == LET c == SelectSeq(evs, IsCore) IN [i \in 1..Len(c) |-> <<c[i].ev, c[i].batch>>]

\* zero_grad, forward, losses, backward, step of batch 0, then of batch 1, ...
ExpectedCore(k) ==
    [i \in 1..(Len(CoreOrder) * k) |->
        <<CoreOrder[((i - 1) % Len(CoreOrder)) + 1], (i - 1) \div Len(CoreOrder)>>]

\* C1: the core calls of train() are, batch after batch in loader order,
\* zero_grad, forward, loss computation, backward, optimizer.step, each once;
\* no call of a later batch precedes the step of an earlier one; at a normal
\* return the optimizer has stepped once per batch.
C1_BatchStepOrder ==
    pc # "idle" =>
        /\ IsPrefix(CoreOf(events), ExpectedCore(Len(trainloader)))
        /\ pc \in BatchPcs => batch_idx < Len(trainloader) /\ pids_size = trainloader[batch_idx + 1]
        /\ pc = "returned" =>
              /\ CoreOf(events) = ExpectedCore(Len(trainloader))
              /\ Cardinality({i \in 1..Len(events) : events[i].ev = "optimizer.step"}) = Len(trainloader)
              /\ opt_steps = (epoch + 1) * Len(trainloader)

C1_Witness == pc = "returned" /\ epoch = 1 /\ Len(trainloader) = 2 /\ opt_steps = 4

\* C2: the loss handed to backward is the sum over the engine's terms (ten,
\* four) of weight times loss value, each term once with its own weight; terms
\* of weight 0 add nothing; with the default weights it is the plain sum.
RECURSIVE SumOver(_, _)
SumOver(S, f) == IF S = {} THEN 0 ELSE LET t == CHOOSE x \in S : TRUE IN f[t] + SumOver(S \ {t}, f)

C2_WeightedSum ==
    pc \in {"backward", "step"} =>
        LET T == Terms(engine)
            prod == [t \in T |-> weight[t] * loss_val[t]]
        IN  /\ Cardinality(T) = (IF engine = "cluster" THEN 10 ELSE 4)
            /\ loss = SumOver(T, prod)
            /\ loss = SumOver({t \in T : weight[t] # 0}, prod)
            /\ weight = DefaultWeights(engine) => loss = SumOver(T, loss_val)
            /\ pc = "step" => events[Len(events)].ev = "backward" /\ events[Len(events)].num = loss

C2_Witness ==
    /\ pc = "step"
    /\ engine = "cluster"
    /\ weight["dep"] = 10
    /\ weight["db_t"] = 4
    /\ loss_val["db_t"] = 14
    /\ loss = 440

\* C3: in the cluster engine the forward call gets drop_top = True exactly in
\* the epochs e with top_drop_epoch # -1 and e+1 >= top_drop_epoch: never with
\* top_drop_epoch = -1, the same in all batches of an epoch, and never False
\* again after it was True.
IsForward(e) == e.ev = "forward"

C3_Inv ==
    engine = "cluster" =>
        LET fw == SelectSeq(events, IsForward)
        IN  /\ \A i \in 1..Len(fw) :
                  /\ fw[i].tag \in {"drop_top=True", "drop_top=False"}
                  /\ fw[i].tag = "drop_top=True" <=> (top_drop_epoch # -1 /\ fw[i].epoch + 1 >= top_drop_epoch)
                  /\ top_drop_epoch = -1 => fw[i].tag = "drop_top=False"
                  /\ fw[i].tag = fw[1].tag
            /\ Len(fw) > 0 => (drop_top <=> fw[Len(fw)].tag = "drop_top=True")

C3_DropTop == [](C3_Inv) /\ [][drop_top => drop_top']_vars

C3_Witness ==
    /\ engine = "cluster"
    /\ top_drop_epoch = 2
    /\ epoch = 1
    /\ batch_idx = 1
    /\ pc = "losses"
    /\ drop_top

\* C4: every train() makes one layer-opening call, before any batch:
\* open_specified_layers(open_layers) iff epoch+1 <= fixbase_epoch and
\* open_layers is not None, else open_all_layers; with fixbase_epoch = 0 or
\* open_layers = None always open_all_layers; once all layers were opened the
\* run never opens specified layers again.
IsLayerEv(e) == e.ev \in {"open_specified_layers", "open_all_layers"}

C4_Inv ==
    pc # "idle" =>
        LET le == SelectSeq(events, IsLayerEv)
            at == CHOOSE i \in 1..Len(events) : IsLayerEv(events[i])
        IN  /\ Len(le) = 1
            /\ \A i \in 1..Len(events) : events[i].batch >= 0 => at < i
            /\ le[1].ev = "open_specified_layers" <=> (epoch < fixbase_epoch /\ open_layers # None)
            /\ le[1].ev = "open_specified_layers" => le[1].tag = open_layers /\ opened = open_layers
            /\ le[1].ev = "open_all_layers" => opened = "all"
            /\ (fixbase_epoch = 0 \/ open_layers = None) => le[1].ev = "open_all_layers"

C4_LayerOpening == [](C4_Inv) /\ [][opened = "all" => opened' = "all"]_vars

C4_Witness ==
    /\ pc = "returned"
    /\ epoch = 1
    /\ fixbase_epoch = 1
    /\ open_layers = "classifier"
    /\ opened = "all"
    /\ Len(trainloader) = 2

\* C5: a train() that returns has stepped a supplied scheduler exactly once,
\* as its last call, after the last batch (also with no batch at all); before
\* the loop ends it has not stepped it; a scheduler of None is never stepped.
IsSchedEv(e) == e.ev = "scheduler.step"

C5_SchedulerOnce ==
    LET se == SelectSeq(events, IsSchedEv)
    IN  /\ scheduler = None => sched_steps = 0 /\ Len(se) = 0
        /\ scheduler # None =>
              IF pc = "returned"
              THEN /\ Len(se) = 1
                   /\ events[Len(events)].ev = "scheduler.step"
                   /\ CoreOf(events) = ExpectedCore(Len(trainloader))
                   /\ sched_steps = epoch + 1
              ELSE /\ Len(se) = 0
                   /\ sched_steps = (IF pc = "idle" THEN 0 ELSE epoch)

C5_Witness ==
    /\ pc = "returned"
    /\ scheduler # None
    /\ sched_steps = 2
    /\ Len(trainloader) = 2

C5_WitnessNoBatch ==
    /\ pc = "returned"
    /\ scheduler # None
    /\ sched_steps = 1
    /\ Len(trainloader) = 0

\* C6 as claimed: when forward, a loss computation or backward raises in batch
\* k, train() ends there with k optimizer steps, no running average and no
\* writer entry for batch k, no later batch and no scheduler step.
IsWriterEv(e) == e.ev \in {"add_scalar", "add_histogram"}

FailureStops ==
    /\ Cardinality({i \in 1..Len(events) : events[i].ev = "optimizer.step"}) = batch_idx
    /\ opt_steps = epoch * Len(trainloader) + batch_idx
    /\ \A i \in 1..Len(events) : events[i].batch <= batch_idx
    /\ \A i \in 1..Len(events) : IsWriterEv(events[i]) => events[i].batch < batch_idx
    /\ Len(writer_steps) = (IF writer # None THEN epoch * Len(trainloader) + batch_idx ELSE 0)
    /\ \A i \in 1..Len(events) : ~IsSchedEv(events[i])
    /\ sched_steps = (IF scheduler # None THEN epoch ELSE 0)
    /\ ~ENABLED Next

C6_NoAverageForFailedBatch ==
    pc = "raised" =>
        /\ FailureStops
        /\ \A t \in Terms(engine) : losses[t].updates = batch_idx
        /\ accs.updates = batch_idx
        /\ batch_time.updates = batch_idx
        /\ data_time.updates = batch_idx

\* C6 amended: as claimed, except that the data-time average has already taken
\* batch k's sample (it is updated at the top of the loop body); the loss,
\* accuracy and batch-time averages hold no sample of batch k.
C6_FailurePropagates ==
    pc = "raised" =>
        /\ FailureStops
        /\ \A t \in Terms(engine) : losses[t].updates = batch_idx
        /\ accs.updates = batch_idx
        /\ batch_time.updates = batch_idx
        /\ data_time.updates = batch_idx + 1

C6_Witness ==
    /\ pc = "raised"
    /\ epoch = 1
    /\ batch_idx = 1
    /\ writer # None
    /\ scheduler # None
    /\ events[Len(events)].ev = "compute_losses"

\* C7 as claimed: with the same arguments the two engines make the same
\* sequence of calls in every train(), up to the names of the loss terms and
\* of the model outputs.
LossTags == {"Train/Loss_" \o t : t \in Terms("cluster") \cup Terms("fgnet")}

IsNamed(e) == e.ev = "add_scalar" /\ e.tag \in LossTags

NotNamed(e) == ~IsNamed(e)

NamesErased(evs) ==
    LET kept == SelectSeq(evs, NotNamed)
    IN  [i \in 1..Len(kept) |-> [kept[i] EXCEPT !.num = IF kept[i].ev = "backward" THEN 0 ELSE @]]

C7_SameControlEvents ==
    (engine = "fgnet" /\ pc = "returned") => NamesErased(events) = NamesErased(ref_run[epoch + 1])

\* C7 amended: the same, also up to the drop_top argument that only the cluster
\* engine passes to the forward call and the add_histogram calls that only the
\* fgnet engine makes (num_parts * min(batch size, 3) per batch, at the batch's
\* step).
NotHistogram(e) == e.ev # "add_histogram"

IsHistogram(e) == e.ev = "add_histogram"

ArgsErased(evs) ==
    LET kept == SelectSeq(NamesErased(evs), NotHistogram)
    IN  [i \in 1..Len(kept) |-> [kept[i] EXCEPT !.tag = IF kept[i].ev = "forward" THEN "" ELSE @]]

BatchesLogged == IF pc \in {"endbatch"} THEN batch_idx + 1 ELSE batch_idx

C7_SameUpToDropTopAndHistograms ==
    (engine = "fgnet" /\ pc # "idle") =>
        LET ref == ref_run[epoch + 1]
            hist == SelectSeq(events, IsHistogram)
        IN  /\ IsPrefix(ArgsErased(events), ArgsErased(ref))
            /\ pc = "returned" => ArgsErased(events) = ArgsErased(ref)
            /\ SelectSeq(ref, IsHistogram) = <<>>
            /\ \A i \in 1..Len(ref) : ref[i].ev = "forward" => ref[i].tag \in {"drop_top=True", "drop_top=False"}
            /\ \A i \in 1..Len(events) : events[i].ev = "forward" => events[i].tag = ""
            /\ \A b \in 0..(Len(trainloader) - 1) :
                  Cardinality({i \in 1..Len(hist) : hist[i].batch = b})
                      = (IF writer # None /\ b < BatchesLogged
                         THEN num_parts * Min(trainloader[b + 1], HistBatchCap) ELSE 0)
            /\ \A i \in 1..Len(hist) : hist[i].num = epoch * Len(trainloader) + hist[i].batch

C7_Witness ==
    /\ engine = "fgnet"
    /\ pc = "returned"
    /\ epoch = 1
    /\ Len(trainloader) = 2
    /\ writer # None
    /\ scheduler # None
    /\ top_drop_epoch = 2
    /\ print_freq = 2
    /\ fixbase_epoch = 1
    /\ open_layers = "classifier"
    /\ Len(SelectSeq(events, IsHistogram)) > 0

\* C8: every train() starts with empty meters; once batch k is processed each
\* loss meter holds sum(loss_i * n_i) and sum(n_i) over the batches 0..k of
\* this train() alone, n_i the label count of batch i, so its average is their
\* quotient; every loss meter and the accuracy meter have had k+1 updates.
RECURSIVE WSum(_, _)
WSum(t, k) == IF k = 0 THEN 0 ELSE batch_losses[k].loss[t] * batch_losses[k].n + WSum(t, k - 1)

RECURSIVE NSum(_)
NSum(k) == IF k = 0 THEN 0 ELSE trainloader[k] + NSum(k - 1)

BatchesMetered == IF pc \in {"print", "writer", "endbatch"} THEN batch_idx + 1 ELSE batch_idx

C8_EpochScopedAverages ==
    pc # "idle" =>
        LET k == BatchesMetered
        IN  /\ \A t \in Terms(engine) :
                  /\ losses[t].sum = WSum(t, k)
                  /\ losses[t].count = NSum(k)
                  /\ MeterAvg(losses[t]) = <<WSum(t, k), NSum(k)>>
                  /\ losses[t].updates = k
            /\ accs.updates = k
            /\ accs.count = k
            /\ batch_time.updates = k
            /\ data_time.updates = (IF pc \in BatchPcs THEN batch_idx + 1 ELSE batch_idx)
            /\ \A i \in 1..Len(batch_losses) : batch_losses[i].n = trainloader[i]
            /\ (pc = "loop" /\ batch_idx = 0) =>
                  /\ \A t \in Terms(engine) : losses[t] = EmptyMeter
                  /\ accs = EmptyMeter /\ batch_time = EmptyMeter /\ data_time = EmptyMeter

C8_Witness ==
    /\ pc = "endbatch"
    /\ epoch = 1
    /\ batch_idx = 1
    /\ trainloader = <<4, 1>>
    /\ batch_losses[1].loss # batch_losses[2].loss
    /\ losses["x"].count = 5
    /\ losses["x"].sum = 2 * 4 + 2 * (Len(TermSeq(engine)) - 1) * 1
    /\ accs.updates = 2

\* C9: with a writer every batch logs at n_iter = epoch * num_batches +
\* batch_idx; over the run these steps are 0, 1, 2, ... in order, one per
\* (epoch, batch); without a writer nothing is logged.
C9_WriterSteps ==
    /\ writer = None => writer_steps = <<>> /\ \A i \in 1..Len(events) : ~IsWriterEv(events[i])
    /\ writer # None =>
          /\ \A i \in 1..Len(writer_steps) :
                /\ writer_steps[i].n_iter = i - 1
                /\ writer_steps[i].n_iter = writer_steps[i].epoch * Len(trainloader) + writer_steps[i].batch
          /\ \A i, j \in 1..Len(writer_steps) :
                (writer_steps[i].n_iter = writer_steps[j].n_iter)
                    <=> (writer_steps[i].epoch = writer_steps[j].epoch /\ writer_steps[i].batch = writer_steps[j].batch)
          /\ \A i \in 1..Len(events) :
                IsWriterEv(events[i]) => events[i].num = events[i].epoch * Len(trainloader) + events[i].batch
          /\ pc # "idle" =>
                /\ Len(writer_steps) = epoch * Len(trainloader) + BatchesLogged
                /\ \A b \in 0..(BatchesLogged - 1) :
                      \E i \in 1..Len(events) : events[i].ev = "add_scalar" /\ events[i].batch = b

C9_Witness ==
    /\ writer # None
    /\ pc = "returned"
    /\ epoch = 1
    /\ Len(writer_steps) = 4
    /\ writer_steps[3] = [epoch |-> 1, batch |-> 0, n_iter |-> 2]

\* C10: for print_freq >= 1 the progress line is printed after exactly the
\* batches whose 1-based index is a multiple of print_freq, floor(num_batches /
\* print_freq) lines per epoch and none when print_freq > num_batches, after
\* the batch's optimizer step and meter updates; printing changes neither the
\* optimizer, the meters nor the batch count.
IsProgress(e) == e.ev = "print" /\ e.tag = "progress"

BatchesPrinted == IF pc \in {"writer", "endbatch"} THEN batch_idx + 1 ELSE batch_idx

C10_Inv ==
    pc # "idle" =>
        LET pr == SelectSeq(events, IsProgress)
        IN  /\ print_freq >= 1
            /\ {pr[i].batch : i \in 1..Len(pr)}
                  = {b \in 0..(BatchesPrinted - 1) : \E m \in 1..Len(trainloader) : b + 1 = m * print_freq}
            /\ \A i, j \in 1..Len(pr) : pr[i].batch = pr[j].batch => i = j
            /\ pc \in {"sched", "returned"} =>
                  /\ Len(pr) = Len(trainloader) \div print_freq
                  /\ print_freq > Len(trainloader) => Len(pr) = 0
            /\ \A i \in 1..Len(events) :
                  IsProgress(events[i]) =>
                      /\ \E j \in 1..(i - 1) : events[j].ev = "optimizer.step" /\ events[j].batch = events[i].batch
                      /\ \E j \in 1..(i - 1) : events[j].ev = "meters.update" /\ events[j].batch = events[i].batch

C10_PrintPoints ==
    /\ [](C10_Inv)
    /\ [][PrintStep => UNCHANGED <<opt_steps, sched_steps, meters, batch_idx, num_batches, trainloader>>]_vars

C10_Witness ==
    /\ pc = "returned"
    /\ print_freq = 2
    /\ Len(trainloader) = 2
    /\ Len(SelectSeq(events, IsProgress)) = 1
    /\ epoch = 1

\* C11: the remaining-batch count of the ETA is never negative at a batch of
\* an epoch below max_epoch, is the number of batches the run has still to
\* step (so it falls by one from each batch to the next, also from the last
\* batch of an epoch to the first of the following one), and is 0 exactly at
\* the last batch of the last epoch.
C11_Inv ==
    pc \in BatchPcs =>
        LET r == EtaBatches(engine)
            total == max_epoch * Len(trainloader)
            stepped == IF pc \in {"meters", "print", "writer", "endbatch"} THEN opt_steps ELSE opt_steps + 1
            pr == SelectSeq(events, IsProgress)
        IN  /\ 0 <= epoch /\ epoch < max_epoch
            /\ 0 <= batch_idx /\ batch_idx < num_batches
            /\ r >= 0
            /\ r = total - stepped
            /\ r = 0 <=> (epoch = max_epoch - 1 /\ batch_idx = num_batches - 1)
            /\ \A i \in 1..Len(pr) : pr[i].num = total - (epoch * Len(trainloader) + pr[i].batch + 1)
            /\ \A i \in 1..(Len(pr) - 1) : pr[i + 1].num = pr[i].num - print_freq

C11_EtaBatches ==
    /\ [](C11_Inv)
    /\ [][(pc = "endbatch" /\ pc' = "loop") => EtaBatches(engine)' = EtaBatches(engine) - 1]_vars
    /\ [][opt_steps' = (IF pc = "step" /\ pc' = "meters" THEN opt_steps + 1 ELSE opt_steps)]_vars

C11_Witness ==
    /\ pc = "writer"
    /\ print_freq = 1
    /\ max_epoch = 2
    /\ epoch = 1
    /\ batch_idx = 1
    /\ num_batches = 2
    /\ opt_steps = 4
    /\ events[Len(events)].ev = "print"
    /\ events[Len(events)].num = 0
    /\ EtaBatches(engine) = 0

=============================================================================
